---- MODULE Spec2Model ----
(***************************************************************************)
(* Model of 00_download_PDFs/01_get_and_parse_PDF.py: the two-pass         *)
(* download / Grobid-extraction pipeline of main(), with download_pdf and  *)
(* grobid_process_fulltext computed as the code computes them.             *)
(*                                                                         *)
(* Strings are sequences of tokens: " " is a whitespace character, every   *)
(* other token is an opaque non-whitespace piece of text ("<TEI" is the    *)
(* TEI root marker).  A file is a record [exists, data].                   *)
(***************************************************************************)
EXTENDS Integers, Sequences, FiniteSets, TLC

\* ---------------------------------------------------------------- bounds
MaxRows == 2          \* longest manifest
MaxRuns == 2          \* runs of main on the same output root
MaxBody == 2          \* longest response body handed to grobid_process_fulltext alone
MaxRetries == 3       \* largest `retries` handed to grobid_process_fulltext alone

\* ------------------------------------------------------- program constants
DefaultRetries == 3   \* retries: int = 3
DefaultBackoff == 50  \* backoff: float = 5.0 (seconds), in tenths of a second
DefaultSleep == 2     \* GROBID_SLEEP default "0.2" (seconds), in tenths of a second

\* ---------------------------------------------------------------- strings
WS == " "
TEI == "<TEI"

RECURSIVE LStrip(_)
LStrip(s) == IF s # <<>> /\ Head(s) = WS THEN LStrip(Tail(s)) ELSE s

RECURSIVE RStrip(_)
RStrip(s) ==
  IF s # <<>> /\ s[Len(s)] = WS THEN RStrip(SubSeq(s, 1, Len(s) - 1)) ELSE s

\* str.strip(): leading and trailing whitespace removed
Strip(s) == RStrip(LStrip(s))

\* `"<TEI" in text`
HasTEI(s) == \E i \in 1..Len(s) : s[i] = TEI

\* ------------------------------------------------------------------ files
NoFile == [exists |-> FALSE]
File(d) == [exists |-> TRUE, data |-> d]

\* --------------------------------------------------------------- manifest
\* Raw CSV cells (before .strip()): blank cells, padded cells, plain cells.
PaperIdVals == { <<WS>>, <<"p1", WS>> }
ForumVals == { <<>>, <<WS, "p2">> }
\* A titled row with a URL, and a differently titled row whose URL cell is blank.
TitleUrlVals == { << <<"t1">>, <<"u1">> >>, << <<"t2", WS>>, <<WS>> >> }

\* The rows of the manifests: a row that has a paper_id has a forum as well.
Rows ==
  { r \in { [paper_id |-> p, forum |-> f, title |-> tu[1], pdf_url |-> tu[2]] :
              p \in PaperIdVals, f \in ForumVals, tu \in TitleUrlVals } :
      Strip(r.paper_id) # <<>> => Strip(r.forum) # <<>> }

RECURSIVE SeqsUpTo(_, _)
SeqsUpTo(S, n) ==
  IF n = 0 THEN { <<>> }
  ELSE LET shorter == SeqsUpTo(S, n - 1)
       IN shorter \cup { Append(q, x) : q \in { t \in shorter : Len(t) = n - 1 }, x \in S }

Manifests == SeqsUpTo(Rows, MaxRows)

\* Manifests in which no row falls back to its forum.
NoFallbackManifests ==
  SeqsUpTo({ r \in Rows : Strip(r.paper_id) = <<>> => Strip(r.forum) = <<>> }, MaxRows)

\* folder_name = paper_id or forum (both already stripped)
folder_name(row) ==
  LET paper_id == Strip(row.paper_id)
      forum == Strip(row.forum)
  IN IF paper_id # <<>> THEN paper_id ELSE forum

\* Every path OUTPUT_ROOT / folder_name the model can name; <<>> is OUTPUT_ROOT itself.
FolderNames == { folder_name(r) : r \in Rows } \cup { <<>> }

\* ------------------------------------------------------------ environment
SleepVals == { 0, DefaultSleep }                       \* GROBID_SLEEP
BatchStarts == -1..1                                   \* GROBID_BATCH_START, any int
BatchSizes == { {} } \cup { {n} : n \in -1..MaxRows }  \* GROBID_BATCH_SIZE, {} is None

\* What one download can meet: success, requests.get or raise_for_status raising,
\* or the stream breaking in iter_content after the file was opened.
DownloadOutcomes == { "ok", "request_error", "stream_error" }
WriteOutcomes == { "ok", "os_error" }

Chars == { WS, TEI, "x" }
Bodies(n) == SeqsUpTo(Chars, n)
\* What one POST can produce: a transport failure, an HTTP error status, or a
\* 2xx response with a body.
Responses(n) ==
  { [kind |-> "conn_error", body |-> <<>>], [kind |-> "http_error", body |-> <<>>] }
    \cup { [kind |-> "ok", body |-> b] : b \in Bodies(n) }

\* The responses the runs of main meet: both failures, an empty body, a TEI body.
MainResponses == Responses(0) \cup { [kind |-> "ok", body |-> <<TEI>>] }

\* The responses a call with `retries` attempts can consume: attempt k is made
\* only if every attempt before it failed with a RequestException, so the answers
\* to the attempts after the first 2xx response repeat it.
Scripts(R, retries) ==
  IF retries = 0 THEN { <<>> }
  ELSE LET failures == { r \in R : r.kind # "ok" }
       IN { [k \in 1..retries |-> IF k <= Len(p) THEN p[k] ELSE r] :
              p \in SeqsUpTo(failures, retries - 1), r \in R \ failures }
            \cup { p \in SeqsUpTo(failures, retries) : Len(p) = retries }

MainScripts == Scripts(MainResponses, DefaultRetries)

Ev(op, n) == [op |-> op, n |-> n]

\* ------------------------------------------------------------ download_pdf
\* The body the server streams for a URL, and what is on disk when the stream
\* breaks after open(dest_path, "wb").
PdfBody(url) == <<"%PDF">> \o url
PartialBody(url) == <<"%PDF-cut">>

\* A download_pdf that asks once more when the GET fails.
download_pdf_Retrying(f, name, url, outcome) ==
  LET f1 == [f EXCEPT ![name].dir = TRUE]
      get == Ev("GET", 0)
      open == Ev("open_pdf", 0)
  IN CASE outcome = "request_error" ->
            [fs |-> f1, exc |-> "RequestException", ev |-> <<get, get>>]
       [] outcome = "stream_error" ->
            [fs |-> [f1 EXCEPT ![name].pdf = File(PartialBody(url))],
             exc |-> "ChunkedEncodingError", ev |-> <<get, open>>]
       [] OTHER ->
            [fs |-> [f1 EXCEPT ![name].pdf = File(PdfBody(url))],
             exc |-> "none", ev |-> <<get, open>>]

\* download_pdf(url, dest_path): mkdir of the parent, one GET, raise_for_status,
\* then the body streamed into the file opened for writing.  Returns the new
\* file system, the exception that leaves the function ("none" if it returns)
\* and the I/O events in order.
download_pdf(f, name, url, outcome) ==
  LET f1 == [f EXCEPT ![name].dir = TRUE]
      get == Ev("GET", 0)
      open == Ev("open_pdf", 0)
  IN CASE outcome = "request_error" ->
            [fs |-> f1, exc |-> "RequestException", ev |-> <<get>>]
       [] outcome = "stream_error" ->
            [fs |-> [f1 EXCEPT ![name].pdf = File(PartialBody(url))],
             exc |-> "ChunkedEncodingError", ev |-> <<get, open>>]
       [] OTHER ->
            [fs |-> [f1 EXCEPT ![name].pdf = File(PdfBody(url))],
             exc |-> "none", ev |-> <<get, open>>]

\* ------------------------------------------------- grobid_process_fulltext
\* except RequestException: the requests exceptions, HTTPError included (and
\* two other except clauses: one that misses HTTPError, one that catches all).
IsRequestException_ConnOnly(exc) == exc = "ConnectionError"
IsRequestException_Any(exc) == TRUE
IsRequestException(exc) == exc \in { "ConnectionError", "HTTPError" }

\* The sanity check of the response text: `not text or "<TEI" not in text`
\* (and the check left out).
IsInvalidTEI_Never(text) == FALSE
IsInvalidTEI(text) == text = <<>> \/ ~HasTEI(text)

\* What is written to output_xml_path for a valid response.
TeiText(body) == Strip(body)

\* The try body of one attempt: POST, raise_for_status, validation, write.
grobid_attempt(f, name, resp, attempt) ==
  LET post == Ev("POST", attempt)
  IN CASE resp.kind = "conn_error" ->
            [fs |-> f, exc |-> "ConnectionError", ev |-> <<post>>]
       [] resp.kind = "http_error" ->
            [fs |-> f, exc |-> "HTTPError", ev |-> <<post>>]
       [] OTHER ->
            LET text == TeiText(resp.body)
            IN IF IsInvalidTEI(text)
               THEN [fs |-> f, exc |-> "ValueError", ev |-> <<post>>]
               ELSE [fs |-> [f EXCEPT ![name].tei = File(text)],
                     exc |-> "none", ev |-> <<post, Ev("open_tei", attempt)>>]

\* `if attempt < retries`: another attempt follows (and the test off by one).
MoreAttempts_OffByOne(attempt, retries) == attempt <= retries
MoreAttempts(attempt, retries) == attempt < retries

\* The sleep before the next attempt (and a delay that does not grow).
BackoffSleep_Constant(backoff, attempt) == backoff
\* time.sleep(backoff * attempt)
BackoffSleep(backoff, attempt) == backoff * attempt

\* for attempt in range(1, retries + 1): the attempts from `attempt` on.
RECURSIVE grobid_loop(_, _, _, _, _, _)
grobid_loop(f, name, script, attempt, retries, backoff) ==
  IF attempt > retries
  THEN [fs |-> f, exc |-> "none", ev |-> <<>>]      \* the loop ends, returns None
  ELSE LET a == grobid_attempt(f, name, script[attempt], attempt)
       IN IF a.exc = "none" THEN a                  \* return
          ELSE IF IsRequestException(a.exc)
          THEN IF MoreAttempts(attempt, retries)
               THEN LET rest == grobid_loop(f, name, script, attempt + 1, retries, backoff)
                    IN [rest EXCEPT !.ev =
                          a.ev \o <<Ev("backoff", BackoffSleep(backoff, attempt))>> \o @]
               ELSE a                               \* raise
          ELSE a                                    \* not caught here

grobid_process_fulltext(f, name, script, retries, backoff) ==
  grobid_loop([f EXCEPT ![name].dir = TRUE], name, script, 1, retries, backoff)

\* ------------------------------------------------------------------- main
VARIABLES
  all_rows,         \* list(csv.DictReader(f)) of the current run
  rows,             \* the slice of all_rows the current run processes
  BATCH_START,      \* int(GROBID_BATCH_START)
  BATCH_SIZE,       \* GROBID_BATCH_SIZE: {} (None) or {n}
  GROBID_SLEEP,     \* float(GROBID_SLEEP), tenths of a second
  root_exists,      \* OUTPUT_ROOT exists
  fs,               \* per folder name: dir made, and the pdf, tei and meta files
  error_log,        \* what the current run wrote to OUTPUT_ROOT / "grobid_errors.json"
  old_error_log,    \* a grobid_errors.json of an earlier run is on disk (never read)
  pc,               \* "idle", "pass1", "pass2", "summary", "done", "aborted", "crashed"
  idx,              \* enumerate(..., start=1) position of the next row of the pass
  errors_download,
  errors_parse,
  log,              \* history: the I/O events of the current run, in order
  runs,             \* history: runs of main started so far
  fs0,              \* history: fs when the current run started
  second_run,       \* history: the current run repeats the rows of the first run, which
                    \*          completed after starting on an empty output root
  opens,            \* history: per folder name and file, times opened for writing
  call              \* the last direct call of grobid_process_fulltext

vars == << all_rows, rows, BATCH_START, BATCH_SIZE, GROBID_SLEEP, root_exists, fs,
           error_log, old_error_log, pc, idx, errors_download, errors_parse, log, runs, fs0,
           second_run, opens, call >>

EmptyDir == [dir |-> FALSE, pdf |-> NoFile, tei |-> NoFile, meta |-> NoFile]
EmptyFs == [name \in FolderNames |-> EmptyDir]
NoOpens == [name \in FolderNames |-> [pdf |-> 0, tei |-> 0, meta |-> 0]]
NoCall == [made |-> FALSE]

\* except Exception: every exception the model raises is an Exception (and an
\* except clause for the requests exceptions only).
CatchesException_RequestOnly(exc) ==
  exc \in { "RequestException", "ConnectionError", "HTTPError", "ChunkedEncodingError" }

CatchesException(exc) ==
  exc \in { "RequestException", "ConnectionError", "HTTPError", "ChunkedEncodingError",
            "ValueError", "OSError" }

\* The existence gates of the three artifacts (and the same gates left out).
NeedsDownload_Ungated(f, name) == TRUE
NeedsDownload(f, name) == ~f[name].pdf.exists

NeedsExtract_Ungated(f, name) == TRUE
NeedsExtract(f, name) == ~f[name].tei.exists

NeedsMeta_Ungated(f, name) == TRUE
NeedsMeta(f, name) == ~f[name].meta.exists

safe_title(raw_title) == Strip(raw_title)

\* `if not pdf_url` and `if not folder_name` (and the same checks left out).
MissingUrl_Never(pdf_url) == FALSE
MissingUrl(pdf_url) == pdf_url = <<>>

MissingIds_Never(name) == FALSE
MissingIds(name) == name = <<>>

\* A bound of a slice as Python reads it: a negative one counts from the end of
\* the list, and either kind is clipped to the list.
SliceIndex(k, len) ==
  IF k < 0 THEN (IF k + len < 0 THEN 0 ELSE k + len)
  ELSE IF k > len THEN len ELSE k

\* list[lo:hi]
PySlice(list, lo, hi) ==
  LET first == SliceIndex(lo, Len(list))
      stop == SliceIndex(hi, Len(list))
  IN IF first < stop THEN SubSeq(list, first + 1, stop) ELSE <<>>

\* all_rows[BATCH_START:end] when BATCH_SIZE is set, all_rows otherwise (and a
\* slice that takes the row at `end` as well).
Slice_Inclusive(all, start, size) ==
  IF size = {} THEN all
  ELSE LET n == CHOOSE k \in size : TRUE
       IN PySlice(all, start, start + n + 1)

Slice(all, start, size) ==
  IF size = {} THEN all
  ELSE LET n == CHOOSE k \in size : TRUE
       IN PySlice(all, start, start + n)

\* The body of the `if not meta_path.exists()` block.
write_meta(f, name, row, outcome) ==
  LET meta == [paper_id |-> Strip(row.paper_id), forum |-> Strip(row.forum),
               title |-> safe_title(Strip(row.title)), pdf_url |-> Strip(row.pdf_url)]
  IN IF outcome = "os_error"
     THEN [fs |-> f, exc |-> "OSError", ev |-> <<>>]
     ELSE [fs |-> [f EXCEPT ![name].meta = File(meta)], exc |-> "none",
           ev |-> <<Ev("open_meta", 0)>>]

\* One iteration of the first loop.  err is the record appended to
\* errors_download (at most one), raised an exception that leaves the loop.
pass1_row(f, row, i, outcome) ==
  LET paper_id == Strip(row.paper_id)
      pdf_url == Strip(row.pdf_url)
      name == folder_name(row)
  IN IF MissingUrl(pdf_url)
     THEN [fs |-> f, ev |-> <<>>, err |-> << <<i, paper_id, "missing_pdf_url">> >>,
           raised |-> "none"]
     ELSE IF MissingIds(name)
     THEN [fs |-> f, ev |-> <<>>, err |-> << <<i, paper_id, "missing_ids">> >>,
           raised |-> "none"]
     ELSE IF ~NeedsDownload(f, name)
     THEN [fs |-> f, ev |-> <<Ev("exists_pdf", 1)>>, err |-> <<>>, raised |-> "none"]
     ELSE LET d == download_pdf(f, name, pdf_url, outcome)
              caught == d.exc # "none" /\ CatchesException(d.exc)
          IN [fs |-> d.fs, ev |-> <<Ev("exists_pdf", 0)>> \o d.ev,
              err |-> IF caught THEN << <<i, paper_id, d.exc>> >> ELSE <<>>,
              raised |-> IF caught THEN "none" ELSE d.exc]

\* One iteration of the second loop.
pass2_row(f, row, i, script, outcome, sleep) ==
  LET paper_id == Strip(row.paper_id)
      name == folder_name(row)
  IN IF MissingIds(name)
     THEN [fs |-> f, ev |-> <<>>, err |-> << <<i, paper_id, "missing_ids">> >>,
           raised |-> "none"]
     ELSE IF ~f[name].pdf.exists
     THEN [fs |-> f, ev |-> <<Ev("exists_pdf", 0)>>,
           err |-> << <<i, paper_id, "pdf_not_downloaded">> >>, raised |-> "none"]
     ELSE LET extract == NeedsExtract(f, name)
              g == IF extract
                   THEN grobid_process_fulltext(f, name, script, DefaultRetries, DefaultBackoff)
                   ELSE [fs |-> f, exc |-> "none", ev |-> <<>>]
              throttle == IF extract /\ g.exc = "none" /\ sleep > 0
                          THEN <<Ev("throttle", sleep)>> ELSE <<>>
              m == IF g.exc # "none" THEN [fs |-> g.fs, exc |-> g.exc, ev |-> <<>>]
                   ELSE IF NeedsMeta(g.fs, name)
                   THEN LET w == write_meta(g.fs, name, row, outcome)
                        IN [w EXCEPT !.ev = <<Ev("exists_meta", 0)>> \o @]
                   ELSE [fs |-> g.fs, exc |-> "none", ev |-> <<Ev("exists_meta", 1)>>]
              caught == m.exc # "none" /\ CatchesException(m.exc)
          IN [fs |-> m.fs,
              ev |-> <<Ev("exists_pdf", 1), Ev("exists_tei", IF extract THEN 0 ELSE 1)>>
                       \o g.ev \o throttle \o m.ev,
              err |-> IF caught THEN << <<i, paper_id, m.exc>> >> ELSE <<>>,
              raised |-> IF caught THEN "none" ELSE m.exc]

\* ---------------------------------------------------------------- actions
Stamp(ev, pass, i) ==
  [k \in 1..Len(ev) |-> [op |-> ev[k].op, n |-> ev[k].n, pass |-> pass, row |-> i]]

Count(ev, op) == Cardinality({ k \in 1..Len(ev) : ev[k].op = op })

Opened(o, name, ev) ==
  IF ev = <<>> THEN o
  ELSE [o EXCEPT ![name] = [pdf |-> @.pdf + Count(ev, "open_pdf"),
                            tei |-> @.tei + Count(ev, "open_tei"),
                            meta |-> @.meta + Count(ev, "open_meta")]]

\* Where the loop goes after row i of n: the next row, or the next stage (and
\* one loop that downloads and parses row by row, as process_row does).
AfterRow_Interleaved(stage, i, n) ==
  IF stage = "pass1" THEN <<"pass2", i>>
  ELSE IF i < n THEN <<"pass1", i + 1>> ELSE <<"summary", 1>>

AfterRow(stage, i, n) ==
  IF i < n THEN <<stage, i + 1>>
  ELSE IF stage = "pass1" THEN <<"pass2", 1>> ELSE <<"summary", 1>>

Init ==
  /\ all_rows = <<>>
  /\ rows = <<>>
  /\ BATCH_START = 0
  /\ BATCH_SIZE = {}
  /\ GROBID_SLEEP = DefaultSleep
  /\ root_exists = FALSE
  /\ fs = EmptyFs
  /\ error_log = NoFile
  /\ old_error_log = FALSE
  /\ pc = "idle"
  /\ idx = 1
  /\ errors_download = <<>>
  /\ errors_parse = <<>>
  /\ log = <<>>
  /\ runs = 0
  /\ fs0 = EmptyFs
  /\ second_run = FALSE
  /\ opens = NoOpens
  /\ call = NoCall

\* main() when the manifest is missing: raise FileNotFoundError (and a main that
\* makes the output root before it looks for the manifest).
Abort_MkdirFirst ==
  /\ pc' = "aborted"
  /\ runs' = runs + 1
  /\ root_exists' = TRUE
  /\ UNCHANGED << all_rows, rows, BATCH_START, BATCH_SIZE, GROBID_SLEEP, fs,
                  error_log, old_error_log, idx, errors_download, errors_parse, log, fs0,
                  second_run, opens, call >>

Abort ==
  /\ pc' = "aborted"
  /\ runs' = runs + 1
  /\ UNCHANGED << all_rows, rows, BATCH_START, BATCH_SIZE, GROBID_SLEEP, root_exists, fs,
                  error_log, old_error_log, idx, errors_download, errors_parse, log, fs0,
                  second_run, opens, call >>

Main_NoManifest ==
  /\ pc = "idle"
  /\ runs < MaxRuns
  /\ Abort

\* The process has ended: its lists are gone, the output root stays.
Main_Exit ==
  /\ pc \in { "done", "aborted" }
  /\ runs < MaxRuns
  /\ pc' = "idle"
  /\ all_rows' = <<>>
  /\ rows' = <<>>
  /\ BATCH_START' = 0
  /\ BATCH_SIZE' = {}
  /\ GROBID_SLEEP' = DefaultSleep
  /\ idx' = 1
  /\ errors_download' = <<>>
  /\ errors_parse' = <<>>
  /\ log' = <<>>
  /\ fs0' = fs
  /\ second_run' = FALSE
  /\ error_log' = NoFile
  /\ old_error_log' = (old_error_log \/ error_log.exists)
  /\ UNCHANGED << root_exists, fs, runs, opens, call >>

\* main() up to the first loop: the environment was read at import, the output
\* root is made, the manifest is read and sliced, the error lists are empty.
Start(m, start, size, sleep) ==
  /\ all_rows' = m
  /\ BATCH_START' = start
  /\ BATCH_SIZE' = size
  /\ GROBID_SLEEP' = sleep
  /\ rows' = Slice(m, start, size)
  /\ pc' = IF Slice(m, start, size) = <<>> THEN "summary" ELSE "pass1"
  /\ root_exists' = TRUE
  /\ idx' = 1
  /\ errors_download' = <<>>
  /\ errors_parse' = <<>>
  /\ log' = <<>>
  /\ runs' = runs + 1
  /\ fs0' = fs
  /\ second_run' = (pc = "done" /\ fs0 = EmptyFs /\ Slice(m, start, size) = rows)
  /\ error_log' = NoFile
  /\ old_error_log' = (old_error_log \/ error_log.exists)
  /\ UNCHANGED << fs, opens, call >>

\* One run of main on an empty output root, any manifest, the default environment.
Main_Start ==
  /\ pc = "idle"
  /\ \E m \in Manifests : Start(m, 0, {}, DefaultSleep)

\* One run of main on an empty output root, a manifest without fallback rows,
\* the default environment.
Main_StartNoFallback ==
  /\ pc = "idle"
  /\ \E m \in NoFallbackManifests : Start(m, 0, {}, DefaultSleep)

\* One run of main on an empty output root under any environment.
Main_StartEnv ==
  /\ pc = "idle"
  /\ \E m \in NoFallbackManifests, start \in BatchStarts, size \in BatchSizes,
        sleep \in SleepVals :
       Start(m, start, size, sleep)

\* A run of main on the output root the runs before it left, on any manifest,
\* under the default environment.
Main_Restart ==
  /\ pc = "idle"
  /\ runs < MaxRuns
  /\ \E m \in NoFallbackManifests : Start(m, 0, {}, DefaultSleep)

\* main run again on the manifest of the run that just completed.
Main_Rerun ==
  /\ pc = "done"
  /\ runs < MaxRuns
  /\ Start(all_rows, BATCH_START, BATCH_SIZE, GROBID_SLEEP)

\* One iteration of "First pass: download all PDFs".
Main_Pass1Row ==
  /\ pc = "pass1"
  /\ idx <= Len(rows)
  /\ \E outcome \in DownloadOutcomes :
     \E r \in { pass1_row(fs, rows[idx], idx, outcome) } :
       LET next == AfterRow("pass1", idx, Len(rows))
       IN /\ fs' = r.fs
          /\ errors_download' = errors_download \o r.err
          /\ log' = log \o Stamp(<<Ev("row", 0)>> \o r.ev, 1, idx)
          /\ opens' = Opened(opens, folder_name(rows[idx]), r.ev)
          /\ pc' = IF r.raised = "none" THEN next[1] ELSE "crashed"
          /\ idx' = IF r.raised = "none" THEN next[2] ELSE idx
  /\ UNCHANGED << all_rows, rows, BATCH_START, BATCH_SIZE, GROBID_SLEEP, root_exists,
                  error_log, old_error_log, errors_parse, runs, fs0, second_run, call >>

\* One iteration of "Second pass: run Grobid + write metadata".
Main_Pass2Row ==
  /\ pc = "pass2"
  /\ idx <= Len(rows)
  /\ \E script \in MainScripts, outcome \in WriteOutcomes :
     \E r \in { pass2_row(fs, rows[idx], idx, script, outcome, GROBID_SLEEP) } :
       LET next == AfterRow("pass2", idx, Len(rows))
       IN /\ fs' = r.fs
          /\ errors_parse' = errors_parse \o r.err
          /\ log' = log \o Stamp(<<Ev("row", 0)>> \o r.ev, 2, idx)
          /\ opens' = Opened(opens, folder_name(rows[idx]), r.ev)
          /\ pc' = IF r.raised = "none" THEN next[1] ELSE "crashed"
          /\ idx' = IF r.raised = "none" THEN next[2] ELSE idx
  /\ UNCHANGED << all_rows, rows, BATCH_START, BATCH_SIZE, GROBID_SLEEP, root_exists,
                  error_log, old_error_log, errors_download, runs, fs0, second_run, call >>

\* `if errors_download or errors_parse` (and a test of the first list only).
HasErrors_DownloadOnly(download, parse) == download # <<>>
HasErrors(download, parse) == download # <<>> \/ parse # <<>>

\* The summary and the error log after the second loop.
Main_Summary ==
  /\ pc = "summary"
  /\ error_log' = IF HasErrors(errors_download, errors_parse)
                  THEN File([download_errors |-> errors_download,
                             parse_errors |-> errors_parse])
                  ELSE error_log
  /\ old_error_log' = (old_error_log /\ ~HasErrors(errors_download, errors_parse))
  /\ log' = IF HasErrors(errors_download, errors_parse)
            THEN log \o Stamp(<<Ev("open_error_log", 0)>>, 3, 0)
            ELSE log
  /\ pc' = "done"
  /\ UNCHANGED << all_rows, rows, BATCH_START, BATCH_SIZE, GROBID_SLEEP, root_exists, fs,
                  idx, errors_download, errors_parse, runs, fs0, second_run, opens, call >>

Run ==
  \/ Main_Pass1Row
  \/ Main_Pass2Row
  \/ Main_Summary

Next ==
  \/ Main_NoManifest
  \/ Main_Start
  \/ Run

Spec == Init /\ [][Next]_vars

NextRuns ==
  \/ Main_NoManifest
  \/ Main_Restart
  \/ Main_Rerun
  \/ Main_Exit
  \/ Run

SpecRuns == Init /\ [][NextRuns]_vars

\* The process is sequential and never waits on anything but its own I/O: a run
\* that can take its next step takes it.
NextFair ==
  \/ Main_NoManifest
  \/ Main_StartNoFallback
  \/ Run

SpecFair == Init /\ [][NextFair]_vars /\ WF_vars(Run)

NextEnv ==
  \/ Main_NoManifest
  \/ Main_StartEnv
  \/ Run

SpecEnv == Init /\ [][NextEnv]_vars

\* ------------------------------------- grobid_process_fulltext on its own
Backoffs == { 1, DefaultBackoff }

\* A folder whose PDF is on disk, nothing else.
PdfOnly == [EmptyFs EXCEPT ![<<"p1">>] = [dir |-> TRUE, pdf |-> File(PdfBody(<<"u1">>)),
                                           tei |-> NoFile, meta |-> NoFile]]

\* One call of grobid_process_fulltext(pdf_path, output_xml_path, retries=, backoff=)
\* against a stub that answers attempt k with script[k].
Call_grobid ==
  /\ ~call.made
  /\ \E retries \in 0..MaxRetries, backoff \in Backoffs :
       \E script \in Scripts(Responses(MaxBody), retries) :
         call' = [made |-> TRUE, retries |-> retries, backoff |-> backoff, script |-> script,
                  res |-> grobid_process_fulltext(PdfOnly, <<"p1">>, script, retries, backoff)]
  /\ UNCHANGED << all_rows, rows, BATCH_START, BATCH_SIZE, GROBID_SLEEP, root_exists, fs,
                  error_log, old_error_log, pc, idx, errors_download, errors_parse, log,
                  runs, fs0, second_run, opens >>

NextFn == Call_grobid

SpecFn == Init /\ [][NextFn]_vars

\* ------------------------- the function on its own, or one run of main
Call_grobidAlone ==
  /\ pc = "idle"
  /\ runs = 0
  /\ Call_grobid

Main_StartAlone ==
  /\ ~call.made
  /\ Main_StartNoFallback

NextUnits ==
  \/ Call_grobidAlone
  \/ Main_StartAlone
  \/ Run

SpecUnits == Init /\ [][NextUnits]_vars

\* ================================================================= claims
RowName(i) == folder_name(rows[i])
RowUrl(i) == Strip(rows[i].pdf_url)
RowPaperId(i) == Strip(rows[i].paper_id)
Events(ops) == { k \in 1..Len(log) : log[k].op \in ops }
RowEvents(ops, i) == { k \in Events(ops) : log[k].row = i }
AllArtifacts(f, name) == f[name].pdf.exists /\ f[name].tei.exists /\ f[name].meta.exists

\* Every row that resolves to an identifier and has a URL has its three artifacts.
Complete(f) ==
  \A i \in 1..Len(rows) :
    (RowName(i) # <<>> /\ RowUrl(i) # <<>>) => AllArtifacts(f, RowName(i))

\* C1: when the first run on an output root left the PDF, the TEI file and
\* meta.json for every row that resolves to an identifier and has a URL, a second
\* run on the same rows makes no GET and no POST.
C1_Idempotence ==
  (second_run /\ Complete(fs0)) => Events({ "GET", "POST" }) = {}

C1_Witness ==
  /\ second_run
  /\ pc = "done"
  /\ Complete(fs0)
  /\ Len(rows) >= 2
  /\ \E i \in 1..Len(rows) : RowName(i) # <<>> /\ RowUrl(i) # <<>>
  /\ \E i \in 1..Len(rows) : RowName(i) # <<>> /\ RowUrl(i) = <<>>

\* C2: a run downloads only for a row whose PDF was absent when the run started
\* and extracts only for a row whose TEI file was absent; a row whose PDF was
\* there without its TEI file gets no download, only the extraction step and, if
\* meta.json was missing, the metadata write.
C2_PartialRunRecovery ==
  /\ \A k \in Events({ "GET", "open_pdf" }) : ~fs0[RowName(log[k].row)].pdf.exists
  /\ \A k \in Events({ "POST", "open_tei" }) : ~fs0[RowName(log[k].row)].tei.exists
  /\ \A i \in 1..Len(rows) :
       (RowName(i) # <<>> /\ fs0[RowName(i)].pdf.exists /\ ~fs0[RowName(i)].tei.exists)
         => /\ RowEvents({ "GET", "open_pdf" }, i) = {}
            /\ RowEvents({ "open_meta" }, i) # {} => ~fs0[RowName(i)].meta.exists

C2_Witness ==
  /\ pc = "done"
  /\ \E i \in 1..Len(rows) :
       /\ RowName(i) # <<>> /\ RowUrl(i) # <<>>
       /\ fs0[RowName(i)].pdf.exists /\ ~fs0[RowName(i)].tei.exists
       /\ RowEvents({ "POST" }, i) # {}
       /\ RowEvents({ "open_meta" }, i) # {}
       /\ AllArtifacts(fs, RowName(i))

\* C9: a PDF, TEI file or meta.json that exists is never opened for writing again
\* and never removed: every step leaves it as it is.
C9_NoOverwrite ==
  [][\A name \in FolderNames : \A kind \in { "pdf", "tei", "meta" } :
       fs[name][kind].exists
         => fs'[name][kind] = fs[name][kind] /\ opens'[name][kind] = opens[name][kind]]_vars

\* A later manifest names an existing identifier with another title and URL, the
\* row reached the metadata gate, and meta.json is what it was.
C9_Witness ==
  /\ pc = "done"
  /\ \E i \in 1..Len(rows) :
       /\ RowName(i) # <<>>
       /\ fs0[RowName(i)].meta.exists
       /\ fs0[RowName(i)].meta.data.title # Strip(rows[i].title)
       /\ fs0[RowName(i)].meta.data.pdf_url # RowUrl(i)
       /\ \E k \in RowEvents({ "exists_meta" }, i) : log[k].pass = 2
       /\ fs[RowName(i)] = fs0[RowName(i)]

Pass1Handled(i) == (pc = "pass1" /\ i < idx) \/ pc \in { "pass2", "summary", "done" }
Pass2Handled(i) == (pc = "pass2" /\ i < idx) \/ pc \in { "summary", "done" }
IOEvents(i) == { k \in 1..Len(log) : log[k].row = i /\ log[k].op # "row" }
InErrors(errors, i, reason) ==
  \E e \in 1..Len(errors) : errors[e] = <<i, RowPaperId(i), reason>>

\* C4: a row whose pdf_url is empty after trimming gets no download attempt (no
\* I/O at all in pass 1) and a missing_pdf_url record in errors_download.
C4_MissingUrl ==
  \A i \in 1..Len(rows) :
    RowUrl(i) = <<>>
      => /\ RowEvents({ "GET", "open_pdf" }, i) = {}
         /\ { k \in IOEvents(i) : log[k].pass = 1 } = {}
         /\ Pass1Handled(i) => InErrors(errors_download, i, "missing_pdf_url")

C4_Witness ==
  /\ pc = "done"
  /\ \E i \in 1..Len(rows) :
       /\ rows[i].pdf_url # <<>> /\ RowUrl(i) = <<>> /\ RowName(i) # <<>>
       /\ InErrors(errors_download, i, "missing_pdf_url")

\* C5: a row whose paper_id and forum are both empty after trimming gets a
\* missing_ids record (in errors_parse, and in errors_download when it has a
\* URL), no I/O in either pass, and nothing is made under an empty folder name.
C5_MissingIds ==
  /\ fs[<<>>] = EmptyDir
  /\ \A i \in 1..Len(rows) :
       RowName(i) = <<>>
         => /\ IOEvents(i) = {}
            /\ Pass2Handled(i) => InErrors(errors_parse, i, "missing_ids")
            /\ (Pass1Handled(i) /\ RowUrl(i) # <<>>)
                 => InErrors(errors_download, i, "missing_ids")

C5_Witness ==
  /\ pc = "done"
  /\ \E i \in 1..Len(rows) :
       /\ rows[i].paper_id # <<>> /\ RowName(i) = <<>> /\ RowUrl(i) # <<>>
       /\ InErrors(errors_parse, i, "missing_ids")
       /\ InErrors(errors_download, i, "missing_ids")

\* C8: every step of pass 1 (the row's turn, the existence check, the GET, the
\* write of the PDF), for every row, comes before the first step of pass 2: no
\* step of pass 1 follows a step of pass 2, no download step follows an
\* extraction or metadata step, and pass 2 starts after every row had its turn
\* in pass 1.
C8_PassOrdering ==
  /\ \A b \in 1..Len(log) - 1 : log[b].pass = 2 => log[b + 1].pass # 1
  /\ \A b \in Events({ "exists_tei", "POST", "open_tei", "exists_meta", "open_meta" }) :
       \A a \in b..Len(log) : log[a].op \notin { "GET", "open_pdf" }
  /\ (\E b \in 1..Len(log) : log[b].pass = 2)
       => \A i \in 1..Len(rows) :
            \E a \in 1..Len(log) : log[a].op = "row" /\ log[a].pass = 1 /\ log[a].row = i

C8_Witness ==
  /\ pc = "done"
  /\ Len(rows) >= 2
  /\ \A i \in 1..Len(rows) : RowEvents({ "GET" }, i) # {} /\ RowEvents({ "POST" }, i) # {}

\* The scenario of C3: no slicing, two rows, row 1 resolves to p1 and its download,
\* extraction and metadata write succeeded, row 2 has an empty pdf_url.
C3_Scenario ==
  /\ pc = "done"
  /\ rows = all_rows
  /\ Len(rows) = 2
  /\ RowName(1) = <<"p1">> /\ RowUrl(1) # <<>>
  /\ RowUrl(2) = <<>>
  /\ fs0 = EmptyFs
  /\ RowEvents({ "open_pdf" }, 1) # {}
  /\ ~\E e \in 1..Len(errors_download) : errors_download[e][1] = 1
  /\ RowEvents({ "open_tei" }, 1) # {}
  /\ RowEvents({ "open_meta" }, 1) # {}

C3_RowB == <<2, RowPaperId(2), "missing_pdf_url">>

\* C3 as stated: the only error of the run is row B's missing_pdf_url, counts 1 and 0.
C3_AsStated ==
  C3_Scenario
    => /\ AllArtifacts(fs, <<"p1">>)
       /\ errors_download = << C3_RowB >>
       /\ errors_parse = <<>>
       /\ error_log = File([download_errors |-> << C3_RowB >>, parse_errors |-> <<>>])

\* C3 (amended): p1's three artifacts exist and errors_download holds exactly row
\* B's missing_pdf_url; errors_parse is empty only when row B resolves to p1 as
\* well, and otherwise holds exactly one record for row B: pdf_not_downloaded, or
\* missing_ids when row B has no identifier.  The counts are then 1 and 1.
C3_EndToEnd ==
  C3_Scenario
    => LET parse == IF RowName(2) = <<"p1">> THEN <<>>
                    ELSE IF RowName(2) = <<>>
                    THEN << <<2, RowPaperId(2), "missing_ids">> >>
                    ELSE << <<2, RowPaperId(2), "pdf_not_downloaded">> >>
       IN /\ AllArtifacts(fs, <<"p1">>)
          /\ errors_download = << C3_RowB >>
          /\ errors_parse = parse
          /\ error_log = File([download_errors |-> << C3_RowB >>, parse_errors |-> parse])

C3_Witness ==
  /\ C3_Scenario
  /\ RowName(2) = <<"p2">>
  /\ Len(errors_download) = 1
  /\ Len(errors_parse) = 1

CallPosts == Count(call.res.ev, "POST")
CallSleeps == Count(call.res.ev, "backoff")
IsFailure(resp) == resp.kind \in { "conn_error", "http_error" }
ValidTEI(resp) == resp.kind = "ok" /\ \E i \in 1..Len(resp.body) : resp.body[i] = TEI
FailedBefore(k) == \A j \in 1..k - 1 : IsFailure(call.script[j])

C7_ValidationLaw ==
  call.made
    => \A k \in 1..call.retries :
         (FailedBefore(k) /\ call.script[k].kind = "ok" /\ ~ValidTEI(call.script[k]))
           => /\ call.res.exc = "ValueError"
              /\ CallPosts = k
              /\ CallSleeps = k - 1
              /\ call.res.ev[Len(call.res.ev)] = Ev("POST", k)
              /\ ~call.res.fs[<<"p1">>].tei.exists
              /\ Count(call.res.ev, "open_tei") = 0

\* A whitespace-only answer to the first of several attempts.
C7_Witness ==
  /\ call.made
  /\ call.retries >= 2
  /\ call.script[1] = [kind |-> "ok", body |-> <<WS>>]
  /\ call.res.exc = "ValueError"
  /\ CallPosts = 1

\* C10: a run that has read its manifest reaches the end of main, whatever
\* fails in its rows; nothing is raised out of a loop.
C10_Completes == (pc \in { "pass1", "pass2", "summary" }) ~> (pc = "done")

\* A completed run with a failed download, a failed extraction, an invalid
\* response or a failed metadata write among its rows.
C10_Witness ==
  /\ pc = "done"
  /\ \E e \in 1..Len(errors_download) :
       errors_download[e][3] \in { "RequestException", "ChunkedEncodingError" }
  /\ \E e \in 1..Len(errors_parse) :
       errors_parse[e][3] \in { "ValueError", "OSError", "HTTPError", "ConnectionError" }

\* C11: when the manifest does not exist main aborts before any other effect: the
\* output root is not made, no row is read or processed, no folder or file is
\* made, no I/O event (no GET, no POST) happens and no error log is written.
C11_FatalPrecondition ==
  pc = "aborted"
    => /\ ~root_exists
       /\ fs = EmptyFs
       /\ opens = NoOpens
       /\ all_rows = <<>> /\ rows = <<>>
       /\ log = <<>>
       /\ errors_download = <<>> /\ errors_parse = <<>>
       /\ error_log = NoFile /\ ~old_error_log

C11_Witness == pc = "aborted" /\ runs = 1 /\ ~root_exists

RowRecords(errors, i) == { e \in 1..Len(errors) : errors[e][1] = i }

\* C12: a run writes grobid_errors.json if and only if one of its two lists is
\* not empty; it is opened once, as the last step of the run, after pass 2, and
\* holds the two lists as they are, record for record in the order of appending
\* (the order of the rows).
C12_ErrorLog ==
  /\ pc # "done" => error_log = NoFile /\ Events({ "open_error_log" }) = {}
  /\ pc = "done"
       => /\ error_log.exists <=> (errors_download # <<>> \/ errors_parse # <<>>)
          /\ error_log.exists
               => /\ error_log.data = [download_errors |-> errors_download,
                                       parse_errors |-> errors_parse]
                  /\ Events({ "open_error_log" }) = { Len(log) }
          /\ ~error_log.exists => Events({ "open_error_log" }) = {}
          /\ \A errors \in { errors_download, errors_parse } :
               \A a, b \in 1..Len(errors) : a < b => errors[a][1] < errors[b][1]

\* A run with only parse errors, two of them, wrote its log.
C12_Witness ==
  /\ pc = "done"
  /\ errors_download = <<>>
  /\ Len(errors_parse) = 2
  /\ error_log = File([download_errors |-> <<>>, parse_errors |-> errors_parse])

AllFail(script) == \A j \in 1..Len(script) : IsFailure(script[j])
RaisedBy(resp) == IF resp.kind = "conn_error" THEN "ConnectionError" ELSE "HTTPError"
RowCount(ops, i) == Cardinality(RowEvents(ops, i))

\* C13: when every attempt of a call fails with a transport error the call makes
\* exactly `retries` POSTs, raises the error of the last attempt and writes no
\* output file; in main a row never gets more than the default number of POSTs,
\* and a row whose POSTs were used up without a TEI file written has exactly one
\* record in errors_parse, which names the exception.
C13_RetryExhaustion ==
  /\ (call.made /\ AllFail(call.script))
       => /\ CallPosts = call.retries
          /\ Count(call.res.ev, "open_tei") = 0
          /\ ~call.res.fs[<<"p1">>].tei.exists
          /\ call.retries >= 1 => call.res.exc = RaisedBy(call.script[call.retries])
  /\ \A i \in 1..Len(rows) :
       /\ RowCount({ "POST" }, i) <= DefaultRetries
       /\ (Pass2Handled(i) /\ RowCount({ "POST" }, i) = DefaultRetries
             /\ RowEvents({ "open_tei" }, i) = {})
            => /\ Cardinality(RowRecords(errors_parse, i)) = 1
               /\ \E e \in RowRecords(errors_parse, i) :
                    /\ errors_parse[e][2] = RowPaperId(i)
                    /\ errors_parse[e][3] \in { "ConnectionError", "HTTPError", "ValueError" }
               /\ RowEvents({ "open_meta", "throttle" }, i) = {}

\* A call that used up three attempts and raised the HTTP error of the last one.
C13_CallWitness ==
  /\ call.made
  /\ call.retries = 3
  /\ AllFail(call.script)
  /\ call.script[1].kind = "conn_error" /\ call.script[3].kind = "http_error"
  /\ call.res.exc = "HTTPError"
  /\ CallPosts = 3

\* A run in which a row used up its attempts and was recorded once.
C13_Witness ==
  /\ pc = "done"
  /\ \E i \in 1..Len(rows) :
       /\ RowCount({ "POST" }, i) = DefaultRetries
       /\ InErrors(errors_parse, i, "HTTPError")
       /\ ~fs[RowName(i)].tei.exists

RECURSIVE SumSleeps(_)
SumSleeps(ev) ==
  IF ev = <<>> THEN 0
  ELSE (IF Head(ev).op = "backoff" THEN Head(ev).n ELSE 0) + SumSleeps(Tail(ev))

Triangle(k) == (k * (k + 1)) \div 2

\* C14: every sleep of a call stands between the POST of a failed attempt i <
\* retries and the POST of attempt i + 1 and lasts backoff * i; two attempts are
\* never made without the sleep between them; the events never end with a sleep
\* (none after the last failed attempt, none after a 2xx response); a 2xx
\* response, valid or not, ends the call, so k failures and then a 2xx response
\* make k + 1 POSTs and backoff * (1 + ... + k) of sleep in total.
C14_BackoffSchedule ==
  call.made
    => /\ \A j \in 1..Len(call.res.ev) :
            call.res.ev[j].op = "backoff"
              => /\ 1 < j /\ j < Len(call.res.ev)
                 /\ call.res.ev[j - 1].op = "POST" /\ call.res.ev[j + 1].op = "POST"
                 /\ call.res.ev[j + 1].n = call.res.ev[j - 1].n + 1
                 /\ call.res.ev[j - 1].n < call.retries
                 /\ IsFailure(call.script[call.res.ev[j - 1].n])
                 /\ call.res.ev[j].n = call.backoff * call.res.ev[j - 1].n
       /\ \A j \in 1..Len(call.res.ev) - 1 :
            ~(call.res.ev[j].op = "POST" /\ call.res.ev[j + 1].op = "POST")
       /\ \A k \in 0..call.retries - 1 :
            (FailedBefore(k + 1) /\ call.script[k + 1].kind = "ok")
              => /\ CallPosts = k + 1
                 /\ CallSleeps = k
                 /\ SumSleeps(call.res.ev) = call.backoff * Triangle(k)
       /\ (AllFail(call.script) /\ call.retries >= 1)
            => /\ CallSleeps = call.retries - 1
               /\ SumSleeps(call.res.ev) = call.backoff * Triangle(call.retries - 1)

\* Two failures, then success, with the default backoff: 50 + 100 of sleep.
C14_Witness ==
  /\ call.made
  /\ call.retries = 3
  /\ call.backoff = DefaultBackoff
  /\ IsFailure(call.script[1]) /\ IsFailure(call.script[2]) /\ ValidTEI(call.script[3])
  /\ call.res.exc = "none"
  /\ SumSleeps(call.res.ev) = 3 * DefaultBackoff

FirstOfName(i) == \A j \in 1..i - 1 : RowName(j) # RowName(i)

\* C15 as stated, for a row that resolves to an identifier no earlier row of the
\* run resolves to: when the row has a record in errors_download and its PDF was
\* not there when the run started, pass 2 records pdf_not_downloaded for it and
\* makes no extraction call (no POST) for it.
C15_AsStated ==
  \A i \in 1..Len(rows) :
    (Pass2Handled(i) /\ RowName(i) # <<>> /\ FirstOfName(i)
       /\ RowRecords(errors_download, i) # {} /\ ~fs0[RowName(i)].pdf.exists)
      => /\ InErrors(errors_parse, i, "pdf_not_downloaded")
         /\ RowEvents({ "POST" }, i) = {}

\* C16 as stated: with a positive GROBID_SLEEP, every extraction call but the
\* first of the run comes after a throttle sleep that follows the call before it
\* (no POST lies between that sleep and the first POST of the call).
C16_AsStated ==
  GROBID_SLEEP > 0
    => \A k \in Events({ "POST" }) :
         (log[k].n = 1 /\ \E j \in Events({ "POST" }) : j < k)
           => \E t \in Events({ "throttle" }) :
                /\ t < k
                /\ log[t].n = GROBID_SLEEP
                /\ \A j \in Events({ "POST" }) : ~(t < j /\ j < k)

RowTurns(pass) == { k \in 1..Len(log) : log[k].op = "row" /\ log[k].pass = pass }

\* The rows a pass has handled so far.
HandledIn(pass) ==
  IF pc = "pass1" THEN (IF pass = 1 THEN idx - 1 ELSE 0)
  ELSE IF pc = "pass2" THEN (IF pass = 1 THEN Len(rows) ELSE idx - 1)
  ELSE IF pc \in { "summary", "done" } THEN Len(rows)
  ELSE 0

\* C17: no exception leaves a loop; in each pass the rows handled so far are rows
\* 1..k of the slice, in that order, each with one turn, and after the pass all
\* of them, whatever failed; every step of a pass belongs to the turn of the row
\* before it in the log; a row has at most one record in errors_download and at
\* most one in errors_parse, and only a handled row has one.
C17_RowOrder ==
  /\ pc # "crashed"
  /\ \A pass \in { 1, 2 } :
       /\ Cardinality(RowTurns(pass)) = HandledIn(pass)
       /\ \A k \in RowTurns(pass) :
            log[k].row = Cardinality({ j \in RowTurns(pass) : j <= k })
  /\ \A k \in 2..Len(log) :
       (log[k].op # "row" /\ log[k].pass \in { 1, 2 })
         => log[k - 1].row = log[k].row /\ log[k - 1].pass = log[k].pass
  /\ \A i \in 1..Len(rows) :
       /\ Cardinality(RowRecords(errors_download, i)) <= 1
       /\ Cardinality(RowRecords(errors_parse, i)) <= 1
  /\ \A e \in 1..Len(errors_download) : errors_download[e][1] \in 1..HandledIn(1)
  /\ \A e \in 1..Len(errors_parse) : errors_parse[e][1] \in 1..HandledIn(2)

\* Row 1 failed in both passes (download, then pdf_not_downloaded), row 2 was
\* downloaded, extracted and described after it.
C17_Witness ==
  /\ pc = "done"
  /\ Len(rows) = 2
  /\ InErrors(errors_download, 1, "RequestException")
  /\ InErrors(errors_parse, 1, "pdf_not_downloaded")
  /\ RowName(2) # RowName(1)
  /\ AllArtifacts(fs, RowName(2))
  /\ RowEvents({ "GET" }, 2) # {} /\ RowEvents({ "POST" }, 2) # {}

\* C18: a run issues at most one GET for a row, in pass 1; a row whose GET failed
\* (no file was opened) has exactly one record in errors_download, the failure,
\* and a row recorded with a failed download had exactly one GET.
C18_NoFetcherRetry ==
  \A i \in 1..Len(rows) :
    /\ RowCount({ "GET" }, i) <= 1
    /\ \A k \in RowEvents({ "GET" }, i) : log[k].pass = 1
    /\ (Pass1Handled(i) /\ RowEvents({ "GET" }, i) # {} /\ RowEvents({ "open_pdf" }, i) = {})
         => /\ InErrors(errors_download, i, "RequestException")
            /\ Cardinality(RowRecords(errors_download, i)) = 1
    /\ (InErrors(errors_download, i, "RequestException")
           \/ InErrors(errors_download, i, "ChunkedEncodingError"))
         => RowCount({ "GET" }, i) = 1

\* Both rows of a run name the same paper and both downloads failed: one GET and
\* one record each.
C18_Witness ==
  /\ pc = "done"
  /\ Len(rows) = 2
  /\ RowName(1) = RowName(2)
  /\ \A i \in 1..2 :
       RowCount({ "GET" }, i) = 1 /\ InErrors(errors_download, i, "RequestException")
  /\ Len(errors_download) = 2

\* The manifest positions start <= i < start + size, clipped to the manifest.
RangeOf(all, start, n) ==
  LET lo == IF start < 0 THEN 0 ELSE start
      hi == IF start + n > Len(all) THEN Len(all) ELSE start + n
  IN IF lo < hi THEN [k \in 1..hi - lo |-> all[lo + k]] ELSE <<>>

\* The run handled exactly `slice`: every row of it had its turn in both passes,
\* every record is about a row of it, and no folder but those of its rows exists.
HandledExactly(slice) ==
  /\ rows = slice
  /\ pc = "done"
       => /\ Cardinality(RowTurns(1)) = Len(slice) /\ Cardinality(RowTurns(2)) = Len(slice)
          /\ \A k \in 1..Len(log) : log[k].row \in 0..Len(slice)
          /\ \A errors \in { errors_download, errors_parse } :
               \A e \in 1..Len(errors) :
                 /\ errors[e][1] \in 1..Len(slice)
                 /\ errors[e][2] = Strip(slice[errors[e][1]].paper_id)
          /\ \A name \in FolderNames :
               fs[name] # EmptyDir => \E k \in 1..Len(slice) : folder_name(slice[k]) = name

BatchSize == CHOOSE n \in BATCH_SIZE : TRUE

\* C19 as stated: whenever a start and a size are configured, the run handles the
\* rows at the positions start <= i < start + size, clipped to the manifest.
C19_AsStated ==
  (pc \in { "pass1", "pass2", "summary", "done" } /\ BATCH_SIZE # {})
    => HandledExactly(RangeOf(all_rows, BATCH_START, BatchSize))

\* C19 (amended): the same for a start and a size that are not negative.
C19_BatchSlicing ==
  (pc \in { "pass1", "pass2", "summary", "done" } /\ BATCH_SIZE # {}
     /\ BATCH_START >= 0 /\ BatchSize >= 0)
    => HandledExactly(RangeOf(all_rows, BATCH_START, BatchSize))

\* The second row alone of a two-row manifest was handled and made its three
\* artifacts; the first row, which has no URL, was not reported.
C19_Witness ==
  /\ pc = "done"
  /\ Len(all_rows) = 2
  /\ BATCH_START = 1 /\ BATCH_SIZE = { 1 }
  /\ rows = << all_rows[2] >>
  /\ Strip(all_rows[1].pdf_url) = <<>>
  /\ AllArtifacts(fs, RowName(1))
  /\ errors_download = <<>> /\ errors_parse = <<>>
  /\ error_log = NoFile

ExtractionFailures == { "ConnectionError", "HTTPError", "ValueError" }

\* C20: whatever runs were made on the output root, for every folder: meta.json
\* only with the TEI file, the TEI file only with the PDF, every file only in a
\* folder that was made; a TEI file holds a non-empty text with the TEI marker;
\* and a row whose extraction failed wrote neither a TEI file nor meta.json.
C20_ArtifactDependency ==
  /\ \A name \in FolderNames :
       /\ fs[name].meta.exists => fs[name].tei.exists
       /\ fs[name].tei.exists => fs[name].pdf.exists
       /\ fs[name].pdf.exists => fs[name].dir
       /\ fs[name].tei.exists
            => /\ fs[name].tei.data # <<>>
               /\ \E k \in 1..Len(fs[name].tei.data) : fs[name].tei.data[k] = TEI
  /\ \A i \in 1..Len(rows) :
       (\E e \in RowRecords(errors_parse, i) : errors_parse[e][3] \in ExtractionFailures)
         => /\ RowEvents({ "POST" }, i) # {}
            /\ RowEvents({ "open_tei", "open_meta" }, i) = {}

\* A second run found the PDF of the first, got an invalid response for it and
\* left the folder without TEI file and without meta.json.
C20_Witness ==
  /\ pc = "done"
  /\ runs = 2
  /\ \E i \in 1..Len(rows) :
       /\ RowName(i) # <<>>
       /\ fs0[RowName(i)].pdf.exists
       /\ InErrors(errors_parse, i, "ValueError")
       /\ fs[RowName(i)].pdf.exists
       /\ ~fs[RowName(i)].tei.exists /\ ~fs[RowName(i)].meta.exists

====
